---- MODULE Spec2Model ----
(***************************************************************************)
(* Model of src/TransferToHeadset.py: the operator                         *)
(* TransferToHeadsetOperator (execute, discover_headset, send_data).       *)
(*                                                                         *)
(* Text is a sequence of Unicode code points, bytes are a sequence of      *)
(* integers 0..255.  execute runs on the host's primary thread, one        *)
(* invocation after the other; every invocation that gets that far starts  *)
(* one worker thread running send_data.  Time is counted in seconds and    *)
(* passes only while discover_headset is blocked in recvfrom.              *)
(***************************************************************************)
EXTENDS Integers, Sequences, FiniteSets, TLC

(***************************************************************************)
(* Bounds of the model.                                                    *)
(***************************************************************************)
\* number of invocations of execute in one run
MaxInvocations == 1
\* number of datagrams the network delivers to one discovery in a burst
MaxDatagrams == 2
\* the last second the clock of the model reaches (discover_headset is over
\* after at most 2 * timeout seconds)
MaxTime == 12
\* longest file name, in characters, and longest payload, in bytes, that
\* send_data is called with directly
MaxNameLen == 2
MaxDataLen == 2
\* number of invocations of execute in a run with overlapping workers
MaxOverlap == 2

(***************************************************************************)
(* Program constants.                                                      *)
(***************************************************************************)
\* execute: port = 5000
port == 5000
\* execute: discovery_port = 5001
discovery_port == 5001
\* discover_headset: timeout = 5  (seconds)
timeout == 5
\* discover_headset: listen_port = 5002
listen_port == 5002
\* execute: len(code) != 4
CodeLength == 4
\* register: StringProperty(maxlen=4)
maxlen == 4

\* Python's None, where the other values are strings
None == "None"

(***************************************************************************)
(* Text and bytes.                                                         *)
(***************************************************************************)
\* "Headset-Discovery-Response"
DiscoveryResponseText ==
    <<72, 101, 97, 100, 115, 101, 116, 45, 68, 105, 115, 99, 111, 118, 101,
      114, 121, 45, 82, 101, 115, 112, 111, 110, 115, 101>>

\* 'Success'
SuccessText == <<83, 117, 99, 99, 101, 115, 115>>

\* str.strip() with no argument removes the characters str.isspace() accepts
IsSpace(c) == c \in {9, 10, 11, 12, 13, 28, 29, 30, 31, 32, 133, 160}

RECURSIVE LStrip(_)
LStrip(s) ==
    IF s = <<>> THEN <<>>
    ELSE IF IsSpace(Head(s)) THEN LStrip(Tail(s)) ELSE s

RECURSIVE RStrip(_)
RStrip(s) ==
    IF s = <<>> THEN <<>>
    ELSE IF IsSpace(s[Len(s)]) THEN RStrip(SubSeq(s, 1, Len(s) - 1)) ELSE s

Strip(s) == RStrip(LStrip(s))

\* str.upper() of one character (ASCII and Latin-1): a sequence, because the
\* upper case of U+00DF is the two characters "SS"
UpperChar(c) ==
    IF c >= 97 /\ c <= 122 THEN <<c - 32>>
    ELSE IF c = 223 THEN <<83, 83>>
    ELSE IF c = 181 THEN <<924>>
    ELSE IF c = 255 THEN <<376>>
    ELSE IF c >= 224 /\ c <= 254 /\ c # 247 THEN <<c - 32>>
    ELSE <<c>>

\* the code as typed, without .upper()
NoUpper(s) == s

RECURSIVE Upper(_)
Upper(s) == IF s = <<>> THEN <<>> ELSE UpperChar(Head(s)) \o Upper(Tail(s))

\* str.encode('utf-8') of one code point
EncodeChar(c) ==
    IF c < 128 THEN <<c>>
    ELSE IF c < 2048 THEN <<192 + (c \div 64), 128 + (c % 64)>>
    ELSE IF c < 65536
         THEN <<224 + (c \div 4096), 128 + ((c \div 64) % 64), 128 + (c % 64)>>
    ELSE <<240 + (c \div 262144), 128 + ((c \div 4096) % 64),
           128 + ((c \div 64) % 64), 128 + (c % 64)>>

RECURSIVE Utf8Encode(_)
Utf8Encode(s) ==
    IF s = <<>> THEN <<>> ELSE EncodeChar(Head(s)) \o Utf8Encode(Tail(s))

IsCont(b) == b >= 128 /\ b <= 191

\* the number of bytes of the UTF-8 sequence that starts b, 0 if b is no
\* valid first byte
SeqLen(b) ==
    IF b < 128 THEN 1
    ELSE IF b >= 194 /\ b <= 223 THEN 2
    ELSE IF b >= 224 /\ b <= 239 THEN 3
    ELSE IF b >= 240 /\ b <= 244 THEN 4
    ELSE 0

\* the code point of the well-formed sequence at the head of b, or -1
DecodeHead(b) ==
    LET n == SeqLen(b[1]) IN
    IF n = 0 \/ Len(b) < n THEN -1
    ELSE IF n = 1 THEN b[1]
    ELSE IF \E i \in 2..n : ~IsCont(b[i]) THEN -1
    ELSE IF n = 2 THEN (b[1] - 192) * 64 + (b[2] - 128)
    ELSE IF n = 3
         THEN LET cp == (b[1] - 224) * 4096 + (b[2] - 128) * 64 + (b[3] - 128)
              IN IF cp < 2048 \/ (cp >= 55296 /\ cp <= 57343) THEN -1 ELSE cp
    ELSE LET cp == (b[1] - 240) * 262144 + (b[2] - 128) * 4096
                     + (b[3] - 128) * 64 + (b[4] - 128)
         IN IF cp < 65536 \/ cp > 1114111 THEN -1 ELSE cp

\* whether bytes.decode('utf-8') returns: Python raises UnicodeDecodeError
\* on a sequence that is not well-formed UTF-8
RECURSIVE Utf8Valid(_)
Utf8Valid(b) ==
    IF b = <<>> THEN TRUE
    ELSE /\ DecodeHead(b) # -1
         /\ Utf8Valid(SubSeq(b, SeqLen(b[1]) + 1, Len(b)))

\* bytes.decode('utf-8') of well-formed bytes
RECURSIVE Utf8Decode(_)
Utf8Decode(b) ==
    IF b = <<>> THEN <<>>
    ELSE <<DecodeHead(b)>> \o Utf8Decode(SubSeq(b, SeqLen(b[1]) + 1, Len(b)))

(***************************************************************************)
(* Inputs: what the host and the network can supply.                       *)
(***************************************************************************)
\* scene.headset_connection_code: strings of at most maxlen characters.
\* "", "    ", "ab1", "ab12", "AB12", " ab1", "ab1 ", "a b2", U+00DF twice
\* (upper case "SSSS"), and U+00DF before "ab1" (upper case "SSAB1")
RawCodes ==
    { <<>>,
      <<32, 32, 32, 32>>,
      <<97, 98, 49>>,
      <<97, 98, 49, 50>>,
      <<65, 66, 49, 50>>,
      <<32, 97, 98, 49>>,
      <<97, 98, 49, 32>>,
      <<97, 32, 98, 50>>,
      <<223, 223>>,
      <<223, 97, 98, 49>> }

\* devices that may answer: the (host, port) a datagram comes from
Senders == {<<"192.168.1.42", 5001>>, <<"192.168.1.77", 40000>>}

\* payloads of inbound datagrams: the response text, the response text and
\* a line feed, the response text short of its last letter, another text
\* ("AB12"), the empty datagram, a byte that is not UTF-8, and a text cut
\* in the middle of a two-byte character
Payloads ==
    { Utf8Encode(DiscoveryResponseText),
      Utf8Encode(DiscoveryResponseText) \o <<10>>,
      SubSeq(Utf8Encode(DiscoveryResponseText), 1, 25),
      <<65, 66, 49, 50>>,
      <<>>,
      <<255>>,
      <<72, 195>> }

(***************************************************************************)
(* State.                                                                  *)
(***************************************************************************)
VARIABLES
    inv,         \* number of invocations of execute so far; the current one
    pc,          \* where the primary thread is
    code,        \* execute: code
    udp,         \* per invocation, the state of discover_headset's sock
    now,         \* time.time(), in seconds since discover_headset was entered
    start_time,  \* discover_headset: start_time
    recvStart,   \* when the recvfrom the primary thread is blocked in was called
    calls,       \* socket calls the current invocation made on the primary thread
    bcast,       \* datagrams the current invocation has sent
    last,        \* discover_headset: <<[data, addr]>> that recvfrom has just
                 \* returned, until the loop comes round again; <<>> otherwise
    exc,         \* the last exception raised on the primary thread in this invocation
    headset_ip,  \* per invocation, what discover_headset returned
    reports,     \* per invocation, the self.report calls
    ret,         \* per invocation, what execute returned
    worker       \* per invocation, the thread running send_data

vars == <<inv, pc, code, udp, now, start_time, recvStart, calls, bcast, last,
          exc, headset_ip, reports, ret, worker>>

Invocations == 1..MaxInvocations

NoCalls == [socket |-> 0, bind |-> 0, sendto |-> 0, recvfrom |-> 0]

NoWorker ==
    [pc |-> "none", sock |-> "none", file_data |-> <<>>, file_name |-> <<>>,
     headset_ip |-> None, port |-> 0, target |-> <<>>, sent |-> <<>>,
     response |-> <<>>, result |-> "none",
     nconnect |-> 0, nsendall |-> 0, nrecv |-> 0]

Init ==
    /\ inv = 0
    /\ pc = "idle"
    /\ code = <<>>
    /\ udp = [i \in Invocations |-> "none"]
    /\ now = 0
    /\ start_time = 0
    /\ recvStart = 0
    /\ calls = NoCalls
    /\ bcast = <<>>
    /\ last = <<>>
    /\ exc = "none"
    /\ headset_ip = [i \in Invocations |-> None]
    /\ reports = [i \in Invocations |-> <<>>]
    /\ ret = [i \in Invocations |-> "none"]
    /\ worker = [i \in Invocations |-> NoWorker]

(***************************************************************************)
(* execute, lines 23-36: the connection code and the call of               *)
(* discover_headset.                                                       *)
(***************************************************************************)
\* a variant of the length check that lets longer codes through
ValidCodeAtLeast(c) == Len(c) >= CodeLength

\* if len(code) != 4: ... return {'CANCELLED'}
ValidCode(c) == Len(c) = CodeLength

\* self.report({level}, msg) in invocation i
Report(i, level, msg) == reports' = [reports EXCEPT ![i] = Append(@, <<level, msg>>)]

\* execute is entered: the locals of the invocation are fresh
Enter ==
    /\ inv' = inv + 1
    /\ now' = 0
    /\ start_time' = 0
    /\ recvStart' = 0
    /\ calls' = NoCalls
    /\ bcast' = <<>>
    /\ last' = <<>>
    /\ exc' = "none"

Execute(raw) ==
    /\ pc = "idle"
    /\ inv + 1 \in DOMAIN worker
    /\ Enter
    /\ code' = Upper(Strip(raw))
    /\ IF ValidCode(code')
       THEN /\ pc' = "discover"
            /\ UNCHANGED <<reports, ret>>
       ELSE /\ Report(inv + 1, "ERROR", "Connection code must be 4 characters.")
            /\ ret' = [ret EXCEPT ![inv + 1] = "CANCELLED"]
            /\ pc' = "exit"
    /\ UNCHANGED <<udp, headset_ip, worker>>

(***************************************************************************)
(* discover_headset, lines 124-168.                                        *)
(***************************************************************************)
Called(op) == calls' = [calls EXCEPT ![op] = @ + 1]

\* another socket of this process is still bound to listen_port
PortInUse == \E j \in DOMAIN udp : udp[j] = "bound"

\* sock.close(); return ip
\* discover_headset returns without sock.close()
ReturnNoClose(ip) ==
    /\ udp' = udp
    /\ headset_ip' = [headset_ip EXCEPT ![inv] = ip]
    /\ pc' = "disc_ret"

Return(ip) ==
    /\ udp' = [udp EXCEPT ![inv] = "closed"]
    /\ headset_ip' = [headset_ip EXCEPT ![inv] = ip]
    /\ pc' = "disc_ret"

\* an exception that nothing in execute catches: execute ends without a
\* report and without a return value
Uncaught(e) ==
    /\ exc' = e
    /\ ret' = [ret EXCEPT ![inv] = "raised"]
    /\ pc' = "exit"

\* lines 130-135: socket(), settimeout(timeout), bind(("", listen_port)),
\* setsockopt(SO_BROADCAST); none of them is inside a try
DiscoverBind ==
    /\ pc = "discover"
    /\ calls' = [calls EXCEPT !.socket = @ + 1, !.bind = @ + 1]
    /\ \/ /\ ~PortInUse
          /\ udp' = [udp EXCEPT ![inv] = "bound"]
          /\ pc' = "send"
          /\ UNCHANGED <<exc, ret>>
       \/ \* bind raises OSError (the port is in use): sock is left open
          /\ udp' = [udp EXCEPT ![inv] = "open"]
          /\ Uncaught("bind")
    /\ UNCHANGED <<inv, code, now, start_time, recvStart, bcast, last,
                   headset_ip, reports, worker>>

\* lines 137-147: the broadcast, then start_time = time.time()
DiscoverSend ==
    /\ pc = "send"
    /\ Called("sendto")
    /\ \/ /\ bcast' = Append(bcast, [data |-> Utf8Encode(code),
                                      to |-> <<"<broadcast>", discovery_port>>])
          /\ start_time' = now
          /\ pc' = "loop"
          /\ UNCHANGED <<exc, udp, headset_ip>>
       \/ \* sendto raises: except Exception: sock.close(); return None
          /\ exc' = "sendto"
          /\ Return(None)
          /\ UNCHANGED <<bcast, start_time>>
    /\ UNCHANGED <<inv, code, now, recvStart, last, reports, ret, worker>>

\* the loop without the elapsed-time check of lines 149-152
DiscoverLoopNoCheck ==
    /\ pc = "loop"
    /\ pc' = "recv"
    /\ recvStart' = now
    /\ Called("recvfrom")
    /\ last' = <<>>
    /\ UNCHANGED <<inv, code, udp, now, start_time, bcast, exc, headset_ip,
                   reports, ret, worker>>

\* lines 148-154: the elapsed-time check at the top of the loop, then the
\* call of recvfrom
DiscoverLoop ==
    /\ pc = "loop"
    /\ LET elapsed_time == now - start_time IN
       IF elapsed_time > timeout
       THEN \* "Discovery timeout reached.": break, sock.close(), return None
            /\ Return(None)
            /\ UNCHANGED <<recvStart, calls>>
       ELSE /\ pc' = "recv"
            /\ recvStart' = now
            /\ Called("recvfrom")
            /\ UNCHANGED <<udp, headset_ip>>
    /\ last' = <<>>
    /\ UNCHANGED <<inv, code, now, start_time, bcast, exc, reports, ret, worker>>

\* a second passes while recvfrom waits; the socket's own timeout (line 131)
\* counts from the call of recvfrom
Tick ==
    /\ pc = "recv"
    /\ now - recvStart < timeout
    /\ now < MaxTime
    /\ now' = now + 1
    /\ UNCHANGED <<inv, pc, code, udp, start_time, recvStart, calls, bcast,
                   last, exc, headset_ip, reports, ret, worker>>

\* a variant of the comparison: response.startswith(...)
IsPrefixOfResponse(response) ==
    /\ Len(response) >= Len(DiscoveryResponseText)
    /\ SubSeq(response, 1, Len(DiscoveryResponseText)) = DiscoveryResponseText

\* line 156: if response == "Headset-Discovery-Response"
IsDiscoveryResponse(response) == response = DiscoveryResponseText

\* a variant of lines 156-159 without the return: the address is noted and
\* the loop goes on listening
KeepListening(response, addr) ==
    /\ pc' = "loop"
    /\ IF IsDiscoveryResponse(response)
       THEN headset_ip' = [headset_ip EXCEPT ![inv] = addr[1]]
       ELSE UNCHANGED headset_ip
    /\ UNCHANGED udp

\* lines 155-159: the comparison; a match closes the socket and returns the
\* sender's host, anything else falls through to the next iteration
OnDatagram(response, addr) ==
    IF IsDiscoveryResponse(response)
    THEN Return(addr[1])
    ELSE /\ pc' = "loop"
         /\ UNCHANGED <<udp, headset_ip>>

\* lines 154-165: recvfrom returns a datagram before the socket's timeout
Receive(data, addr) ==
    /\ pc = "recv"
    /\ now - recvStart < timeout
    /\ last' = <<[data |-> data, addr |-> addr]>>
    /\ IF Utf8Valid(data)
       THEN /\ OnDatagram(Utf8Decode(data), addr)
            /\ UNCHANGED exc
       ELSE \* data.decode raises UnicodeDecodeError: except Exception: break
            /\ exc' = "decode"
            /\ Return(None)
    /\ UNCHANGED <<inv, code, now, start_time, recvStart, calls, bcast,
                   reports, ret, worker>>

\* a datagram of a burst: it may arrive at any moment, the one recvfrom was
\* called in included
DiscoverRecv(data, addr) ==
    /\ calls.recvfrom <= MaxDatagrams
    /\ Receive(data, addr)

\* a datagram of a slow trickle: it arrives a second or more after recvfrom
\* was called and before the socket's timeout, any number of times
DiscoverTrickle(data, addr) ==
    /\ now > recvStart
    /\ Receive(data, addr)

\* lines 160-162: recvfrom raises socket.timeout
DiscoverRecvTimeout ==
    /\ pc = "recv"
    /\ now - recvStart = timeout
    /\ exc' = "timeout"
    /\ Return(None)
    /\ UNCHANGED <<inv, code, now, start_time, recvStart, calls, bcast, last,
                   reports, ret, worker>>

\* lines 163-165: recvfrom raises another exception
DiscoverRecvError ==
    /\ pc = "recv"
    /\ exc' = "recvfrom"
    /\ Return(None)
    /\ UNCHANGED <<inv, code, now, start_time, recvStart, calls, bcast, last,
                   reports, ret, worker>>

(***************************************************************************)
(* execute, lines 34-122: after discover_headset has returned; the locals  *)
(* of discover_headset (the clock readings, data, addr) are gone.          *)
(***************************************************************************)
\* the objects of the scene, by name
Objects == {"Ab", "L 1"}

NameText(obj) == IF obj = "Ab" THEN <<65, 98>> ELSE <<76, 32, 49>>

\* what the exported file can hold
FileDatas == {<<103>>, <<0, 255>>}

\* bpy.path.clean_name: every character besides A-Z, a-z, 0-9 becomes "_"
CleanChar(c) ==
    IF (c >= 48 /\ c <= 57) \/ (c >= 65 /\ c <= 90) \/ (c >= 97 /\ c <= 122)
    THEN c ELSE 95

CleanName(name) == [k \in 1..Len(name) |-> CleanChar(name[k])]

\* f"{safe_name}.glb"
FileName(obj) == CleanName(NameText(obj)) \o <<46, 103, 108, 98>>

\* a variant of the check that never takes the failure branch
NeverFailed(ip) == FALSE

\* if not headset_ip
DiscoveryFailed(ip) == ip = None

Cancelled(msg) ==
    /\ Report(inv, "ERROR", msg)
    /\ ret' = [ret EXCEPT ![inv] = "CANCELLED"]
    /\ UNCHANGED <<exc, worker>>

\* the arguments kept in attributes of the operator, which every running
\* thread reads, in the place of args=(...) of its own
StartThreadShared(file_data, file_name, ip) ==
    worker' = [j \in DOMAIN worker |->
                 IF j = inv
                 THEN [NoWorker EXCEPT !.pc = "start",
                                       !.file_data = file_data,
                                       !.file_name = file_name,
                                       !.headset_ip = ip, !.port = port]
                 ELSE IF worker[j].pc \in {"start", "connect", "sendall",
                                           "recv"}
                      THEN [worker[j] EXCEPT !.file_data = file_data,
                                             !.file_name = file_name,
                                             !.headset_ip = ip]
                      ELSE worker[j]]

\* threading.Thread(target=self.send_data, args=(...)).start()
StartThread(file_data, file_name, ip) ==
    worker' = [worker EXCEPT ![inv] =
                 [NoWorker EXCEPT !.pc = "start", !.file_data = file_data,
                                  !.file_name = file_name, !.headset_ip = ip,
                                  !.port = port]]

\* lines 34-122 in a scene with the given selection and active object,
\* where the export writes one of the given files
ExecuteInScene(selected_objects, active_object, files) ==
    /\ pc = "disc_ret"
    /\ pc' = "exit"
    /\ IF DiscoveryFailed(headset_ip[inv])
       THEN Cancelled("Could not discover headset on the network.")
       ELSE IF selected_objects = {}
            THEN Cancelled("No objects selected.")
            ELSE IF active_object = None \/ active_object \notin selected_objects
            THEN Cancelled("Active object is not among the selected objects.")
            ELSE \/ \* to_mesh() gave None for every selected object
                    Cancelled("No duplicates created for export.")
                 \/ \* a bpy.ops call or os.remove raises: nothing catches it
                    /\ exc' = "export"
                    /\ ret' = [ret EXCEPT ![inv] = "raised"]
                    /\ UNCHANGED <<reports, worker>>
                 \/ \* open or read raises
                    Cancelled("Error reading temporary file")
                 \/ \E file_data \in files :
                       /\ StartThread(file_data, FileName(active_object),
                                      headset_ip[inv])
                       /\ Report(inv, "INFO", "Model transfer started to "
                                          \o headset_ip[inv] \o "...")
                       /\ ret' = [ret EXCEPT ![inv] = "FINISHED"]
                       /\ UNCHANGED exc
    /\ now' = 0
    /\ start_time' = 0
    /\ recvStart' = 0
    /\ last' = <<>>
    /\ UNCHANGED <<inv, code, udp, calls, bcast, headset_ip>>

ExecuteAfterDiscovery ==
    \E selected_objects \in SUBSET Objects,
       active_object \in Objects \cup {None} :
        ExecuteInScene(selected_objects, active_object, FileDatas)

\* execute has returned (or raised) to the host: its locals are gone
ExecuteReturn ==
    /\ pc = "exit"
    /\ pc' = "idle"
    /\ code' = <<>>
    /\ now' = 0
    /\ start_time' = 0
    /\ recvStart' = 0
    /\ calls' = NoCalls
    /\ bcast' = <<>>
    /\ last' = <<>>
    /\ exc' = "none"
    /\ UNCHANGED <<inv, udp, headset_ip, reports, ret, worker>>

(***************************************************************************)
(* send_data, lines 170-198, on the worker thread of invocation i.         *)
(***************************************************************************)
\* struct.pack('<I', n), struct.pack('<Q', n): n in w bytes, the least
\* significant first
RECURSIVE LittleEndian(_, _)
LittleEndian(n, w) ==
    IF w = 0 THEN <<>> ELSE <<n % 256>> \o LittleEndian(n \div 256, w - 1)

\* struct.pack('>I', n), struct.pack('>Q', n): n in w bytes, big-endian
RECURSIVE BigEndian(_, _)
BigEndian(n, w) ==
    IF w = 0 THEN <<>> ELSE Append(BigEndian(n \div 256, w - 1), n % 256)

\* the packet with len(file_name), the number of characters, for the length
\* of the name
PacketCharCount(file_name, file_data) ==
    LET name_bytes == Utf8Encode(file_name) IN
    BigEndian(Len(file_name), 4) \o name_bytes
        \o BigEndian(Len(file_data), 8) \o file_data

\* line 177: packet
Packet(file_name, file_data) ==
    LET name_bytes == Utf8Encode(file_name) IN
    BigEndian(Len(name_bytes), 4) \o name_bytes
        \o BigEndian(Len(file_data), 8) \o file_data

\* what the device can answer: 'Success', 'Error', a prefix and an extension
\* of 'Success', nothing, and bytes that are not UTF-8
Acks ==
    { Utf8Encode(SuccessText),
      <<69, 114, 114, 111, 114>>,
      SubSeq(Utf8Encode(SuccessText), 1, 6),
      Utf8Encode(SuccessText) \o <<10>>,
      <<>>,
      <<255>> }

\* send_data returns and the thread ends; what stays is what the run did:
\* the calls it made, where it connected, what it read, what it printed and
\* whether close() was called on its socket
Done(w, result) ==
    [w EXCEPT !.pc = "done", !.result = result, !.file_data = <<>>,
              !.file_name = <<>>, !.headset_ip = None, !.port = 0,
              !.sent = <<>>]

\* lines 172-183: the packet, socket(), settimeout(30)
SendDataSocket(i) ==
    /\ worker[i].pc = "start"
    /\ worker' = [worker EXCEPT ![i].pc = "connect", ![i].sock = "open"]
    /\ UNCHANGED <<inv, pc, code, udp, now, start_time, recvStart, calls,
                   bcast, last, exc, headset_ip, reports, ret>>

\* line 184: sock.connect((headset_ip, port))
SendDataConnect(i) ==
    /\ worker[i].pc = "connect"
    /\ LET w == [worker[i] EXCEPT !.nconnect = @ + 1,
                                  !.target = <<worker[i].headset_ip,
                                               worker[i].port>>] IN
       \/ worker' = [worker EXCEPT ![i] = [w EXCEPT !.pc = "sendall"]]
       \/ \* socket.timeout
          worker' = [worker EXCEPT ![i] = Done(w, "timeout")]
       \/ \* another exception: connection refused, no route to host
          worker' = [worker EXCEPT ![i] = Done(w, "error")]
    /\ UNCHANGED <<inv, pc, code, udp, now, start_time, recvStart, calls,
                   bcast, last, exc, headset_ip, reports, ret>>

\* sock.send(packet) in the place of sendall: one write that takes only the
\* first bytes of the packet, after which the run goes on to read
SendDataSend(i) ==
    /\ worker[i].pc = "sendall"
    /\ LET w == [worker[i] EXCEPT !.nsendall = @ + 1] IN
       \/ worker' = [worker EXCEPT ![i] =
                        [w EXCEPT !.pc = "recv",
                                  !.sent = SubSeq(Packet(w.file_name,
                                                         w.file_data), 1, 4)]]
       \/ worker' = [worker EXCEPT ![i] = Done(w, "timeout")]
       \/ worker' = [worker EXCEPT ![i] = Done(w, "error")]
    /\ UNCHANGED <<inv, pc, code, udp, now, start_time, recvStart, calls,
                   bcast, last, exc, headset_ip, reports, ret>>

\* line 186: sock.sendall(packet)
SendDataSendAll(i) ==
    /\ worker[i].pc = "sendall"
    /\ LET w == [worker[i] EXCEPT !.nsendall = @ + 1] IN
       \/ worker' = [worker EXCEPT ![i] =
                        [w EXCEPT !.pc = "recv",
                                  !.sent = Packet(w.file_name, w.file_data)]]
       \/ \* socket.timeout
          worker' = [worker EXCEPT ![i] = Done(w, "timeout")]
       \/ \* another exception
          worker' = [worker EXCEPT ![i] = Done(w, "error")]
    /\ UNCHANGED <<inv, pc, code, udp, now, start_time, recvStart, calls,
                   bcast, last, exc, headset_ip, reports, ret>>

\* response.decode('utf-8').startswith('Success') in the place of ==
StartsWithSuccess(text) ==
    /\ Len(text) >= Len(SuccessText)
    /\ SubSeq(text, 1, Len(SuccessText)) = SuccessText

\* line 191: if response.decode('utf-8') == 'Success'
IsSuccess(text) == text = SuccessText

\* lines 189-198: recv(1024), close, and the comparison, with a device
\* that answers one of acks
SendDataRecvFrom(i, acks) ==
    /\ worker[i].pc = "recv"
    /\ LET w == [worker[i] EXCEPT !.nrecv = @ + 1] IN
       \/ \E response \in acks :
             worker' = [worker EXCEPT ![i] =
                Done([w EXCEPT !.sock = "closed", !.response = response],
                     IF ~Utf8Valid(response) THEN "error"
                     ELSE IF IsSuccess(Utf8Decode(response))
                          THEN "success" ELSE "failed")]
       \/ \* socket.timeout
          worker' = [worker EXCEPT ![i] = Done(w, "timeout")]
       \/ \* another exception
          worker' = [worker EXCEPT ![i] = Done(w, "error")]
    /\ UNCHANGED <<inv, pc, code, udp, now, start_time, recvStart, calls,
                   bcast, last, exc, headset_ip, reports, ret>>

SendDataRecv(i) == SendDataRecvFrom(i, Acks)

(***************************************************************************)
(* The specification.                                                      *)
(***************************************************************************)
Next ==
    \/ \E raw \in RawCodes : Execute(raw)
    \/ DiscoverBind
    \/ DiscoverSend
    \/ DiscoverLoop
    \/ Tick
    \/ \E data \in Payloads, addr \in Senders : DiscoverRecv(data, addr)
    \/ DiscoverRecvTimeout
    \/ DiscoverRecvError
    \/ ExecuteAfterDiscovery
    \/ ExecuteReturn
    \/ \E i \in Invocations : SendDataSocket(i)
    \/ \E i \in Invocations : SendDataConnect(i)
    \/ \E i \in Invocations : SendDataSendAll(i)
    \/ \E i \in Invocations : SendDataRecv(i)

Spec == Init /\ [][Next]_vars

(***************************************************************************)
(* send_data called directly: one thread, started with any file name and   *)
(* any payload of the sets below, among them names whose characters take   *)
(* one, two, three and four bytes.                                         *)
(***************************************************************************)
SeqsUpTo(S, n) == UNION {[1..k -> S] : k \in 0..n}

\* 'Chair.glb'
ChairGlb == <<67, 104, 97, 105, 114, 46, 103, 108, 98>>

\* A, e with acute accent, the euro sign, a character beyond U+FFFF
CodecNames == SeqsUpTo({65, 233, 8364, 128512}, MaxNameLen) \cup {ChairGlb}

CodecDatas ==
    SeqsUpTo({0, 10, 255}, MaxDataLen) \cup {<<1, 2, 3, 4, 5, 6, 7, 8, 9, 10>>}

InitCodec ==
    /\ inv = 1
    /\ pc = "idle"
    /\ code = <<>>
    /\ udp = <<"none">>
    /\ now = 0
    /\ start_time = 0
    /\ recvStart = 0
    /\ calls = NoCalls
    /\ bcast = <<>>
    /\ last = <<>>
    /\ exc = "none"
    /\ headset_ip = <<None>>
    /\ reports = << <<>> >>
    /\ ret = <<"none">>
    /\ \E file_name \in CodecNames, file_data \in CodecDatas :
          worker = <<[NoWorker EXCEPT !.pc = "start",
                                      !.file_data = file_data,
                                      !.file_name = file_name,
                                      !.headset_ip = "192.168.1.42",
                                      !.port = port]>>

NextCodec ==
    \/ SendDataSocket(1)
    \/ SendDataConnect(1)
    \/ SendDataSendAll(1)
    \/ SendDataRecv(1)

SpecCodec == InitCodec /\ [][NextCodec]_vars

(***************************************************************************)
(* Invocations one after another on the primary thread, each with the      *)
(* code 'ab12'; the first datagram, if one arrives, is the response or is  *)
(* not UTF-8; one object is selected and active; the device acknowledges   *)
(* with 'Success' or 'Error'; the workers of the earlier invocations are   *)
(* still running.                                                          *)
(***************************************************************************)
InitOverlap ==
    /\ inv = 0
    /\ pc = "idle"
    /\ code = <<>>
    /\ udp = [i \in 1..MaxOverlap |-> "none"]
    /\ now = 0
    /\ start_time = 0
    /\ recvStart = 0
    /\ calls = NoCalls
    /\ bcast = <<>>
    /\ last = <<>>
    /\ exc = "none"
    /\ headset_ip = [i \in 1..MaxOverlap |-> None]
    /\ reports = [i \in 1..MaxOverlap |-> <<>>]
    /\ ret = [i \in 1..MaxOverlap |-> "none"]
    /\ worker = [i \in 1..MaxOverlap |-> NoWorker]

\* the object that is selected and active, and the file its export writes
OverlapScenes ==
    { [object |-> "Ab", file_data |-> <<103>>],
      [object |-> "L 1", file_data |-> <<0, 255>>] }

\* 'Success' and 'Error'
OverlapAcks == {Utf8Encode(SuccessText), <<69, 114, 114, 111, 114>>}

NextOverlap ==
    \/ Execute(<<97, 98, 49, 50>>)
    \/ DiscoverBind
    \/ DiscoverSend
    \/ DiscoverLoop
    \/ Tick
    \/ \E data \in {Utf8Encode(DiscoveryResponseText), <<255>>},
          addr \in Senders : DiscoverRecv(data, addr)
    \/ DiscoverRecvTimeout
    \/ DiscoverRecvError
    \/ \E scene \in OverlapScenes :
          ExecuteInScene({scene.object}, scene.object, {scene.file_data})
    \/ ExecuteReturn
    \/ \E i \in DOMAIN worker : SendDataSocket(i)
    \/ \E i \in DOMAIN worker : SendDataConnect(i)
    \/ \E i \in DOMAIN worker : SendDataSendAll(i)
    \/ \E i \in DOMAIN worker : SendDataRecvFrom(i, OverlapAcks)

SpecOverlap == InitOverlap /\ [][NextOverlap]_vars

(***************************************************************************)
(* Discovery under any arrival of datagrams: bursts of up to MaxDatagrams  *)
(* and, without a bound on their number, datagrams a second or more apart. *)
(* The primary thread keeps running, the clock advances while recvfrom     *)
(* waits, and recvfrom times out when its time is up.  The workers are     *)
(* left out.                                                               *)
(***************************************************************************)
NextLive ==
    \/ Execute(<<97, 98, 49, 50>>)
    \/ DiscoverBind
    \/ DiscoverSend
    \/ DiscoverLoop
    \/ Tick
    \/ \E data \in Payloads, addr \in Senders : DiscoverRecv(data, addr)
    \/ \E data \in Payloads, addr \in Senders : DiscoverTrickle(data, addr)
    \/ DiscoverRecvTimeout
    \/ DiscoverRecvError
    \/ ExecuteAfterDiscovery
    \/ ExecuteReturn

Fairness ==
    /\ WF_vars(DiscoverBind)
    /\ WF_vars(DiscoverSend)
    /\ WF_vars(DiscoverLoop)
    /\ WF_vars(Tick)
    /\ WF_vars(DiscoverRecvTimeout)

SpecLive == Init /\ [][NextLive]_vars /\ Fairness

(***************************************************************************)
(* Properties.                                                             *)
(***************************************************************************)
ResponseBytes == Utf8Encode(DiscoveryResponseText)

\* the current invocation has made no socket call on the primary thread,
\* has sent nothing and has created no socket
NoNetworkActivity ==
    /\ calls = NoCalls
    /\ bcast = <<>>
    /\ udp[inv] = "none"

LastReport(i) == reports[i][Len(reports[i])]

\* C1: an invocation whose stripped, upper-cased code is not 4 characters
\* long ends with the code error alone, has made no socket call, sent no
\* datagram, created no socket and started no worker.
C1_BadCodeNoNetwork ==
    (pc # "idle" /\ Len(code) # CodeLength) =>
        /\ pc = "exit"
        /\ reports[inv] = << <<"ERROR", "Connection code must be 4 characters.">> >>
        /\ ret[inv] = "CANCELLED"
        /\ NoNetworkActivity
        /\ worker[inv] = NoWorker

C1_Witness ==
    /\ pc = "exit"
    /\ Len(code) = CodeLength + 1
    /\ ret[inv] = "CANCELLED"
    /\ NoNetworkActivity

\* C2: an invocation that ends with one of the two selection errors (nothing
\* selected; the active object missing or not selected) has had no network
\* activity.
C2_SelectionErrorNoNetwork ==
    (/\ pc = "exit"
     /\ reports[inv] # <<>>
     /\ LastReport(inv)[2] \in
            {"No objects selected.",
             "Active object is not among the selected objects."})
    => NoNetworkActivity

\* C3: a worker exists only for an invocation whose discover_headset has
\* returned an address, it is handed that address, and every connect it
\* makes goes to that address on the transfer port; an invocation whose
\* discovery has not returned an address has no worker and no connect.
C3_DiscoveryPrecedesTransfer ==
    \A i \in Invocations :
        /\ worker[i].pc # "none" =>
              /\ i <= inv
              /\ headset_ip[i] # None
              /\ (i = inv => pc \in {"exit", "idle"})
        /\ worker[i].pc \in {"start", "connect", "sendall", "recv"} =>
              worker[i].headset_ip = headset_ip[i]
        /\ worker[i].nconnect > 0 => worker[i].target = <<headset_ip[i], port>>
        /\ headset_ip[i] = None => worker[i] = NoWorker

C3_Witness ==
    \E i \in Invocations :
        /\ worker[i].nconnect = 1
        /\ headset_ip[i] = "192.168.1.77"
        /\ worker[i].target = <<"192.168.1.77", port>>

\* C4: the primary thread makes no socket call and never waits in a receive.
C4_PrimaryThreadNeverOnNetwork ==
    /\ calls = NoCalls
    /\ pc # "recv"

\* C5: when discover_headset returns an address, the datagram it has just
\* received carries exactly the bytes of "Headset-Discovery-Response" and
\* the address is that datagram's sender.
C5_NoFalsePositive ==
    (pc = "disc_ret" /\ headset_ip[inv] # None) =>
        /\ last # <<>>
        /\ last[1].data = ResponseBytes
        /\ headset_ip[inv] = last[1].addr[1]

C5_Witness ==
    /\ pc = "disc_ret"
    /\ calls.recvfrom = 2
    /\ last # <<>>
    /\ last[1].data = ResponseBytes
    /\ headset_ip[inv] = "192.168.1.77"

\* a matching datagram has just been received
Matched == last # <<>> /\ last[1].data = ResponseBytes

\* C6: once a matching datagram has been received, discover_headset is
\* returning its sender's address with the socket closed, and no step after
\* it receives again, listens again or changes the address.
C6_FirstResponseWins ==
    [][Matched =>
        /\ pc = "disc_ret"
        /\ udp[inv] = "closed"
        /\ headset_ip[inv] = last[1].addr[1]
        /\ pc' \notin {"loop", "recv"}
        /\ calls'.recvfrom <= calls.recvfrom
        /\ headset_ip'[inv] = headset_ip[inv]
        /\ udp'[inv] = "closed"]_vars

C6_Witness ==
    /\ Matched
    /\ pc = "disc_ret"
    /\ calls.recvfrom = 1
    /\ udp[inv] = "closed"
    /\ headset_ip[inv] = "192.168.1.42"

\* C7: after any non-matching datagram received within the timeout,
\* discover_headset is still listening: it is back in its loop with the
\* socket bound.
C7_NonMatchingIgnored ==
    (/\ last # <<>>
     /\ last[1].data # ResponseBytes
     /\ now - start_time <= timeout)
    => (pc = "loop" /\ udp[inv] = "bound")

\* C8: measured from start_time, discover_headset is never waiting in a
\* receive after more than timeout seconds, and it never returns (an address
\* or failure) later than that.
C8_CumulativeTimeout ==
    pc \in {"recv", "disc_ret"} => now - start_time <= timeout

\* C9: an invocation in which bind or sendto failed ends with the discovery
\* failure reported and CANCELLED returned, without a receive.
C9_BindOrSendFailureReported ==
    (pc = "exit" /\ exc \in {"bind", "sendto"}) =>
        /\ ret[inv] = "CANCELLED"
        /\ reports[inv] =
              << <<"ERROR", "Could not discover headset on the network.">> >>
        /\ calls.recvfrom = 0

\* C10: a worker that has finished has had close() called on the socket it
\* created.
C10_SocketClosedWhenDone ==
    \A i \in Invocations :
        (worker[i].pc = "done" /\ worker[i].sock # "none") =>
            worker[i].sock = "closed"

\* C11: a run of send_data connects at most once, writes the framed message
\* at most once and reads at most once, in that order: it writes only after
\* its one connect, it reads only after the whole framed message of its
\* file name and payload was written, and a run that ended with a verdict
\* on the acknowledgement made exactly one connect, one write and one read.
\* No step is made a second time after it failed.
C11_ConnectWriteReadOnce ==
    \A i \in DOMAIN worker :
        LET w == worker[i] IN
        /\ w.nconnect <= 1 /\ w.nsendall <= 1 /\ w.nrecv <= 1
        /\ w.nsendall = 1 => w.nconnect = 1
        /\ w.nrecv = 1 => w.nsendall = 1
        /\ w.pc \in {"none", "start", "connect"} =>
              w.nconnect = 0 /\ w.nsendall = 0 /\ w.nrecv = 0
        /\ w.pc = "sendall" => w.nconnect = 1 /\ w.nsendall = 0
        /\ w.pc = "recv" =>
              /\ w.nrecv = 0
              /\ w.sent = Packet(w.file_name, w.file_data)
        /\ w.sent # <<>> => w.pc = "recv"
        /\ w.result \in {"success", "failed"} =>
              w.nconnect = 1 /\ w.nsendall = 1 /\ w.nrecv = 1

\* a run whose read timed out after the whole message was written: it ended
\* there, with one connect, one write and one read
C11_Witness ==
    \E i \in DOMAIN worker :
        /\ worker[i].pc = "done"
        /\ worker[i].result = "timeout"
        /\ worker[i].nconnect = 1
        /\ worker[i].nsendall = 1
        /\ worker[i].nrecv = 1

\* the seven bytes of 'Success'
SuccessBytes == <<83, 117, 99, 99, 101, 115, 115>>

\* C12: a run of send_data ends with the verdict of success exactly when its
\* one read returned the bytes of 'Success' and nothing else.  Every other
\* result of the read (no bytes, 'Error', a prefix or an extension of
\* 'Success', bytes that are not UTF-8, a timeout, another error) ends in a
\* verdict that is not success.
C12_SuccessIffExactAck ==
    \A i \in DOMAIN worker :
        LET w == worker[i] IN
        /\ w.result = "success" <=>
              (w.pc = "done" /\ w.nrecv = 1 /\ w.response = SuccessBytes)
        /\ (w.pc = "done" /\ w.nrecv = 1 /\ w.response # SuccessBytes) =>
              w.result \in {"failed", "timeout", "error"}
        /\ w.result = "failed" => w.nrecv = 1 /\ Utf8Valid(w.response)

\* the device answered 'Success' and the run ended with the verdict of
\* success
C12_Witness ==
    \E i \in DOMAIN worker :
        /\ worker[i].result = "success"
        /\ worker[i].response = SuccessBytes
        /\ worker[i].sock = "closed"

\* the number a length field holds, read as the wire format says: the most
\* significant byte first.  Numbers from 2^30 on are all read as 2^30; no
\* message here is that long.
RECURSIVE BEValue(_)
BEValue(b) ==
    IF b = <<>> THEN 0
    ELSE LET high == BEValue(SubSeq(b, 1, Len(b) - 1)) IN
         IF high >= 4194304 THEN 1073741824 ELSE 256 * high + b[Len(b)]

\* C13: for every file name whose UTF-8 encoding has L bytes and every
\* payload of M bytes, the message send_data writes has exactly 4 + L + 8 + M
\* bytes: L in 4 bytes big-endian, the L bytes of the name, M in 8 bytes
\* big-endian, the M bytes of the payload, in this order.  For 'Chair.glb'
\* and a payload of 10 bytes it has 31 bytes, the first 4 hold 9 and bytes
\* 14 to 21 hold 10.
C13_FramedMessageLayout ==
    \A i \in DOMAIN worker :
        worker[i].sent # <<>> =>
            LET w == worker[i]
                s == w.sent
                name_bytes == Utf8Encode(w.file_name)
                L == Len(name_bytes)
                M == Len(w.file_data) IN
            /\ Len(s) = 4 + L + 8 + M
            /\ \A k \in 1..Len(s) : s[k] \in 0..255
            /\ BEValue(SubSeq(s, 1, 4)) = L
            /\ SubSeq(s, 5, 4 + L) = name_bytes
            /\ BEValue(SubSeq(s, 5 + L, 12 + L)) = M
            /\ SubSeq(s, 13 + L, 12 + L + M) = w.file_data
            /\ (w.file_name = ChairGlb /\ M = 10) =>
                  /\ Len(s) = 31
                  /\ SubSeq(s, 1, 4) = <<0, 0, 0, 9>>
                  /\ SubSeq(s, 14, 21) = <<0, 0, 0, 0, 0, 0, 0, 10>>

\* 'Chair.glb' and ten bytes were written as a message of 31 bytes
C13_Witness ==
    \E i \in DOMAIN worker :
        /\ worker[i].file_name = ChairGlb
        /\ Len(worker[i].file_data) = 10
        /\ Len(worker[i].sent) = 31

\* what a decoder yields that finds fewer bytes than a length field declares
Rejected == [ok |-> FALSE, name |-> <<>>, payload |-> <<>>, rest |-> <<>>]

\* the decoder of the wire format: a 32-bit big-endian length, that many
\* bytes of the name, a 64-bit big-endian length, that many bytes of the
\* payload; rest is what follows the payload
Decode(msg) ==
    IF Len(msg) < 4 THEN Rejected
    ELSE LET L == BEValue(SubSeq(msg, 1, 4)) IN
         IF Len(msg) < 4 + L + 8 THEN Rejected
         ELSE LET M == BEValue(SubSeq(msg, 5 + L, 12 + L)) IN
              IF Len(msg) < 12 + L + M THEN Rejected
              ELSE [ok |-> TRUE,
                    name |-> SubSeq(msg, 5, 4 + L),
                    payload |-> SubSeq(msg, 13 + L, 12 + L + M),
                    rest |-> SubSeq(msg, 13 + L + M, Len(msg))]

\* C14: decoding the message send_data writes for the file name N and the
\* payload P with the decoder of the wire format is accepted and gives back
\* the UTF-8 bytes of N, which decode to N, and P, and leaves no byte over.
C14_RoundTrip ==
    \A i \in DOMAIN worker :
        worker[i].sent # <<>> =>
            LET d == Decode(worker[i].sent) IN
            /\ d.ok
            /\ Utf8Valid(d.name)
            /\ Utf8Decode(d.name) = worker[i].file_name
            /\ d.payload = worker[i].file_data
            /\ d.rest = <<>>

\* a message was written for a name of two characters that take five bytes
\* and a payload of two bytes
C14_Witness ==
    \E i \in DOMAIN worker :
        /\ worker[i].sent # <<>>
        /\ worker[i].file_name = <<8364, 233>>
        /\ Len(Decode(worker[i].sent).name) = 5
        /\ worker[i].file_data = <<0, 255>>

\* C15: an invocation of execute makes at most one report to the host, and
\* an invocation that is over, on whichever path it ended, has made exactly
\* one.
C15_ExactlyOneReport ==
    /\ \A i \in DOMAIN reports : Len(reports[i]) <= 1
    /\ pc = "exit" => Len(reports[inv]) = 1

\* the sentences send_data has for the ways a run ends
OutcomeTexts ==
    { "Model transferred successfully.", "Failed to transfer model.",
      "Connection timed out.", "Failed to transfer model: " }

\* C16: once the worker of an invocation has finished, whether on the
\* acknowledgement, a wrong acknowledgement, a timeout or an error, the host
\* holds a report of that invocation with the worker's outcome, and holds
\* one such report only.
C16_WorkerOutcomeReported ==
    \A i \in DOMAIN worker :
        worker[i].pc = "done" =>
            Cardinality({k \in 1..Len(reports[i]) :
                            reports[i][k][2] \in OutcomeTexts}) = 1

\* a thread that runs send_data
Running(w) == w.pc \in {"start", "connect", "sendall", "recv"}

\* a running thread works for its own invocation: it holds the address that
\* invocation discovered and the transfer port, it has connected nowhere
\* else, and what it has written is the message of its own file name and
\* payload
OwnTransfer ==
    \A i \in DOMAIN worker :
        LET w == worker[i] IN
        Running(w) =>
            /\ i <= inv
            /\ w.headset_ip = headset_ip[i]
            /\ w.port = port
            /\ w.target # <<>> => w.target = <<headset_ip[i], port>>
            /\ w.sent # <<>> => w.sent = Packet(w.file_name, w.file_data)

\* a step touches one thread at most; a thread is started by the invocation
\* that runs, with the address that invocation discovered; while a thread
\* runs, its arguments stay as they were at its start; a step of execute
\* leaves every thread that was started before alone
OwnStep ==
    /\ \A i, j \in DOMAIN worker :
          (i # j) => (worker'[i] = worker[i] \/ worker'[j] = worker[j])
    /\ \A i \in DOMAIN worker :
          LET w == worker[i]
              v == worker'[i] IN
          /\ (w.pc = "none" /\ v.pc # "none") =>
                /\ i = inv
                /\ v.pc = "start"
                /\ v.sock = "none"
                /\ v.headset_ip = headset_ip[i]
          /\ (Running(w) /\ Running(v)) =>
                /\ v.file_name = w.file_name
                /\ v.file_data = w.file_data
                /\ v.headset_ip = w.headset_ip
                /\ v.port = w.port
          /\ (w.pc # "none" /\ <<pc, inv, reports, ret>>' # <<pc, inv, reports, ret>>)
                => v = w

\* C17: a new invocation may start while the threads of earlier ones are
\* connecting, writing or awaiting the acknowledgement, and under every
\* interleaving each thread has its own socket and connects to the address
\* and writes the file name and payload of its own invocation: no step of
\* execute or of a thread changes what another thread holds.
C17_OverlapIndependent == []OwnTransfer /\ [][OwnStep]_vars

\* two threads at once, with different file names, payloads and addresses:
\* the first has written its message and awaits the acknowledgement while
\* the second is connecting
C17_Witness ==
    /\ inv = 2
    /\ worker[1].pc = "recv"
    /\ worker[2].pc = "connect"
    /\ worker[1].file_name # worker[2].file_name
    /\ worker[1].file_data # worker[2].file_data
    /\ worker[1].headset_ip # worker[2].headset_ip
    /\ worker[1].sent = Packet(worker[1].file_name, worker[1].file_data)
    /\ worker[1].sock = "open" /\ worker[2].sock = "open"

\* the discovery sockets that hold the listen port
BoundSockets == {i \in DOMAIN udp : udp[i] = "bound"}

NormalizedCodeBytes(data) ==
    /\ Utf8Valid(data)
    /\ LET t == Utf8Decode(data) IN
       /\ Len(t) = 4
       /\ ~IsSpace(t[1]) /\ ~IsSpace(t[4])
       /\ \A k \in 1..4 : t[k] \notin 97..122 /\ t[k] # 223

\* C18: an invocation calls sendto at most once and puts at most one
\* datagram on the network; a discovery that listens or has returned has
\* called sendto exactly once, and a discovery that listens has sent exactly
\* one datagram, to the broadcast address at the discovery port, whose
\* payload is the UTF-8 encoding of the stripped, upper-cased code of the
\* invocation.
C18_OneBroadcastOfNormalizedCode ==
    /\ calls.sendto <= 1
    /\ Len(bcast) <= 1
    /\ pc \in {"loop", "recv", "disc_ret"} => calls.sendto = 1
    /\ pc \in {"loop", "recv"} => Len(bcast) = 1
    /\ \A k \in 1..Len(bcast) :
          /\ bcast[k].to = <<"<broadcast>", discovery_port>>
          /\ bcast[k].data = Utf8Encode(code)
          /\ NormalizedCodeBytes(bcast[k].data)

\* the discovery listens after it has broadcast the bytes of 'AB12' once
C18_Witness ==
    /\ pc = "recv"
    /\ calls.sendto = 1
    /\ calls.recvfrom = 2
    /\ bcast = <<[data |-> <<65, 66, 49, 50>>,
                  to |-> <<"<broadcast>", 5001>>]>>

\* C19: discover_headset always ends: a call that has started ends by a
\* return or by the exception of its socket set-up, and a call that has
\* bound its socket returns, an address or None, whatever datagrams arrive,
\* an endless trickle of datagrams that do not match included.
C19_DiscoveryTerminates ==
    /\ (pc = "discover") ~> (pc \in {"disc_ret", "exit"})
    /\ (pc \in {"send", "loop", "recv"}) ~> (pc = "disc_ret")

\* discover_headset has returned None by the elapsed-time check, after more
\* datagrams than a burst holds, none of which matched and the last of
\* which came in time for its recvfrom
C19_Witness ==
    /\ pc = "disc_ret"
    /\ headset_ip[inv] = None
    /\ exc = "none"
    /\ now - start_time > timeout
    /\ now - recvStart < timeout
    /\ calls.recvfrom > MaxDatagrams + 1

====
